---- MODULE Spec2Model ----
(***************************************************************************)
(* Model of p1.py: Dijkstra-style searches over a grid level.              *)
(*                                                                         *)
(* A cell is a pair <<x, y>>.  A level is a record with `spaces` (a        *)
(* function from cells to their cost), `walls` (a set of cells) and        *)
(* `waypoints`.                                                            *)
(*                                                                         *)
(* Costs.  navigation_edges produces c1*0.5 + c2*0.5 for a straight step   *)
(* and c1*(sqrt(2)*.5) + c2*(sqrt(2)*.5) for a diagonal step, and inf for  *)
(* a wall.  A cost is modelled exactly as a record [inf, s, d] standing    *)
(* for the real number (s + d*sqrt(2))/2, or for float('inf') when inf is  *)
(* TRUE.  Sums and comparisons are those of the real numbers (rounding of  *)
(* the floating point sums is not modelled); inf absorbs every sum and is  *)
(* not smaller than itself, as in Python.                                  *)
(***************************************************************************)
EXTENDS Integers, Sequences, FiniteSets, TLC

VARIABLES level, adj, initial_position, destination,
          pc, dij_dict, qheap, curr, found, path,
          all_result, sp_result

vars == <<level, adj, initial_position, destination,
          pc, dij_dict, qheap, curr, found, path,
          all_result, sp_result>>

(***************************************************************************)
(* Bounds of the checked inputs.                                           *)
(***************************************************************************)
MaxX == 2
MaxY == 2
MaxWalls == 2
MaxExpensive == 1
MaxCost == 2

Region == (0 .. MaxX) \X (0 .. MaxY)

(***************************************************************************)
(* Cost arithmetic.                                                        *)
(***************************************************************************)
Zero == [inf |-> FALSE, s |-> 0, d |-> 0]

Inf == [inf |-> TRUE, s |-> 0, d |-> 0]

Straight(n) == [inf |-> FALSE, s |-> n, d |-> 0]

Diagonal(n) == [inf |-> FALSE, s |-> 0, d |-> n]

CostAdd(a, b) ==
    IF a.inf \/ b.inf THEN Inf
    ELSE [inf |-> FALSE, s |-> a.s + b.s, d |-> a.d + b.d]

\* p + q*sqrt(2) > 0 for integers p, q
PositiveSurd(p, q) ==
    \/ p >= 0 /\ q >= 0 /\ (p > 0 \/ q > 0)
    \/ p > 0 /\ q < 0 /\ p * p > 2 * q * q
    \/ p < 0 /\ q > 0 /\ 2 * q * q > p * p

\* a < b
CostLess(a, b) ==
    IF a.inf THEN FALSE
    ELSE IF b.inf THEN TRUE
    ELSE PositiveSurd(b.s - a.s, b.d - a.d)

\* Python's ordering of the tuples (x, y)
CellLess(a, b) == a[1] < b[1] \/ (a[1] = b[1] /\ a[2] < b[2])

\* Python's ordering of the heap entries (cell, cost)
EntryLess(e, f) ==
    CellLess(e[1], f[1]) \/ (e[1] = f[1] /\ CostLess(e[2], f[2]))

(***************************************************************************)
(* heapq.  The heap is kept as the sequence of its entries in ascending    *)
(* order: heappop returns and removes the smallest entry, heappush adds    *)
(* one.                                                                    *)
(***************************************************************************)
RECURSIVE heappush(_, _)
heappush(h, e) ==
    IF h = <<>> THEN <<e>>
    ELSE IF EntryLess(e, Head(h)) THEN <<e>> \o h
    ELSE <<Head(h)>> \o heappush(Tail(h), e)

RECURSIVE PushAll(_, _)
PushAll(h, es) ==
    IF es = <<>> THEN h ELSE PushAll(heappush(h, Head(es)), Tail(es))

(***************************************************************************)
(* navigation_edges                                                        *)
(***************************************************************************)
near_cells(cell) ==
    SelectSeq([i \in 1 .. 9 |->
                  <<cell[1] + ((i - 1) \div 3) - 1, cell[2] + ((i - 1) % 3) - 1>>],
              LAMBDA c : c # cell)

\* level['spaces'][cell] is looked up for a cell that is not a space
NavigationRaises(lvl, cell) ==
    /\ cell \notin DOMAIN lvl.spaces
    /\ \E i \in 1 .. 8 : near_cells(cell)[i] \in DOMAIN lvl.spaces

\* every step priced as a straight one
EdgeCost_AllStraight(lvl, cell, c) ==
    IF c \in DOMAIN lvl.spaces
    THEN Straight(lvl.spaces[cell] + lvl.spaces[c])
    ELSE Inf

EdgeCost(lvl, cell, c) ==
    IF c \in DOMAIN lvl.spaces
    THEN IF c[1] # cell[1] /\ c[2] # cell[2]
         THEN Diagonal(lvl.spaces[cell] + lvl.spaces[c])
         ELSE Straight(lvl.spaces[cell] + lvl.spaces[c])
    ELSE Inf

navigation_edges(lvl, cell) ==
    LET near == SelectSeq(near_cells(cell),
                          LAMBDA c : c \in DOMAIN lvl.spaces \/ c \in lvl.walls)
    IN  [i \in 1 .. Len(near) |-> <<near[i], EdgeCost(lvl, cell, near[i])>>]

(***************************************************************************)
(* The adjacency functions handed to the searches as `adj`.                *)
(* "navigation_edges" is the one of the module; "four_connected" is an     *)
(* alternative movement model: the horizontal and vertical entries of      *)
(* navigation_edges.                                                       *)
(***************************************************************************)
four_connected(lvl, cell) ==
    SelectSeq(navigation_edges(lvl, cell),
              LAMBDA e : e[1][1] = cell[1] \/ e[1][2] = cell[2])

\* "negative_step" is an adjacency function with negative costs: the
\* entries of navigation_edges, the cost of the step to the right out of
\* column 0 negated (no cycle of the grid has a negative cost).
CostNeg(a) == IF a.inf THEN a ELSE [inf |-> FALSE, s |-> 0 - a.s, d |-> 0 - a.d]

negative_step(lvl, cell) ==
    LET es == navigation_edges(lvl, cell)
    IN  [i \in 1 .. Len(es) |->
            IF cell[1] = 0 /\ es[i][1] = <<1, cell[2]>>
            THEN <<es[i][1], CostNeg(es[i][2])>>
            ELSE es[i]]

Adj(fn, lvl, cell) ==
    IF fn = "navigation_edges" THEN navigation_edges(lvl, cell)
    ELSE IF fn = "four_connected" THEN four_connected(lvl, cell)
    ELSE negative_step(lvl, cell)

AdjRaises(fn, lvl, cell) == NavigationRaises(lvl, cell)

(***************************************************************************)
(* Dictionaries: functions from the set of their keys.                     *)
(***************************************************************************)
DictSet(dict, k, v) ==
    [x \in DOMAIN dict \cup {k} |-> IF x = k THEN v ELSE dict[x]]

RECURSIVE DictSetAll(_, _)
DictSetAll(dict, es) ==
    IF es = <<>> THEN dict
    ELSE DictSetAll(DictSet(dict, Head(es)[1], Head(es)[2]), Tail(es))

EmptyDict == [x \in {} |-> Zero]

(***************************************************************************)
(* Lines 19-24 and 66-71: the cost map and the heap after the edges of     *)
(* initial_position have been pushed.                                      *)
(***************************************************************************)
SeedDict(adject, src) == DictSetAll(DictSet(EmptyDict, src, Zero), adject)

SeedHeap(adject) == PushAll(<<>>, adject)

(***************************************************************************)
(* Lines 32 and 77: the entries (c, cost + dij_dict[cell]) of the edges    *)
(* of the popped cell that are new or cheaper than the recorded cost.      *)
(***************************************************************************)
\* a relaxation that never lowers a recorded cost
Improves_OnlyNew(dict, cell, e) == e[1] \notin DOMAIN dict

\* the comparison of line 32 with >= for >
Improves_OrEqual(dict, cell, e) ==
    \/ e[1] \notin DOMAIN dict
    \/ ~CostLess(dict[e[1]], CostAdd(e[2], dict[cell]))

\* the comparison of line 32 turned around
Improves_Reversed(dict, cell, e) ==
    \/ e[1] \notin DOMAIN dict
    \/ CostLess(dict[e[1]], CostAdd(e[2], dict[cell]))

Improves(dict, cell, e) ==
    \/ e[1] \notin DOMAIN dict
    \/ CostLess(CostAdd(e[2], dict[cell]), dict[e[1]])

temp_dict(dict, cell, costs) ==
    LET better == SelectSeq(costs, LAMBDA e : Improves(dict, cell, e))
    IN  [i \in 1 .. Len(better) |->
            <<better[i][1], CostAdd(better[i][2], dict[cell])>>]

(***************************************************************************)
(* Lines 43-47: one scan of the 3x3 block around curr, which moves found   *)
(* to a cell of the cost map cheaper than curr and than found.             *)
(***************************************************************************)
\* a scan of the rows y - 1 and y only
RECURSIVE Scan_TwoRows(_, _, _, _)
Scan_TwoRows(dict, cur, fnd, i) ==
    IF i >= 6 THEN fnd
    ELSE LET x == i % 3
             y == i \div 3
             check == <<cur[1] + (x - 1), cur[2] + (y - 1)>>
         IN  IF /\ check \in DOMAIN dict
                /\ CostLess(dict[check], dict[cur])
                /\ CostLess(dict[check], dict[fnd])
             THEN Scan_TwoRows(dict, cur, check, i + 1)
             ELSE Scan_TwoRows(dict, cur, fnd, i + 1)

RECURSIVE Scan(_, _, _, _)
Scan(dict, cur, fnd, i) ==
    IF i = 9 THEN fnd
    ELSE LET x == i % 3
             y == i \div 3
             check == <<cur[1] + (x - 1), cur[2] + (y - 1)>>
         IN  IF /\ check \in DOMAIN dict
                /\ CostLess(dict[check], dict[cur])
                /\ CostLess(dict[check], dict[fnd])
             THEN Scan(dict, cur, check, i + 1)
             ELSE Scan(dict, cur, fnd, i + 1)

(***************************************************************************)
(* Inputs: the levels, the sources and the destinations of the queries.    *)
(* A level covers Region with spaces and at most MaxWalls walls; at most   *)
(* MaxExpensive spaces cost more than 1, and none more than MaxCost.       *)
(***************************************************************************)
OutsideNear == <<-1, 0>>

OutsideFar == <<-3, -3>>

Sources == Region \cup {OutsideNear, OutsideFar}

Destinations == Region \cup {OutsideFar}

SpaceCosts(walls) ==
    UNION {[expensive -> 2 .. MaxCost] :
             expensive \in {e \in SUBSET (Region \ walls) :
                              Cardinality(e) <= MaxExpensive}}

Levels(src) ==
    {[spaces |-> [c \in Region \ walls |->
                     IF c \in DOMAIN costly THEN costly[c] ELSE 1],
      walls |-> walls,
      waypoints |-> [w \in {"a"} |-> src]] :
        <<walls, costly>> \in
            UNION {{<<w, f>> : f \in SpaceCosts(w)} :
                     w \in {w \in SUBSET Region : Cardinality(w) <= MaxWalls}}}

\* the value of a cell variable that is not bound yet
NoCell == <<>>

Pending == [kind |-> "pending", value |-> <<>>]

Raised == [kind |-> "KeyError", value |-> <<>>]

None == [kind |-> "None", value |-> <<>>]

InitWith(fn) ==
    /\ adj = fn
    /\ initial_position \in Sources
    /\ destination = NoCell
    /\ level \in Levels(initial_position)
    /\ pc = "all_seed"
    /\ dij_dict = EmptyDict
    /\ qheap = <<>>
    /\ curr = NoCell
    /\ found = NoCell
    /\ path = <<>>
    /\ all_result = Pending
    /\ sp_result = Pending

Init == InitWith("navigation_edges")

InitFour == InitWith("four_connected")

InitNegative == InitWith("negative_step")

(***************************************************************************)
(* dijkstras_shortest_path_to_all                                          *)
(***************************************************************************)
\* lines 66-71
AllSeed ==
    /\ pc = "all_seed"
    /\ IF AdjRaises(adj, level, initial_position)
       THEN /\ all_result' = Raised
            /\ pc' = "sp_seed"
            /\ UNCHANGED <<dij_dict, qheap>>
       ELSE LET adject == Adj(adj, level, initial_position)
            IN  /\ dij_dict' = SeedDict(adject, initial_position)
                /\ qheap' = SeedHeap(adject)
                /\ pc' = "all_loop"
                /\ UNCHANGED all_result
    /\ UNCHANGED <<level, adj, initial_position, destination, curr, found,
                   path, sp_result>>

\* an iteration that takes a popped wall out of the level
AllPop_MutatesLevel ==
    /\ pc = "all_loop"
    /\ qheap # <<>>
    /\ LET cell == Head(qheap)
           rest == Tail(qheap)
       IN  IF cell[1] \in level.walls
           THEN /\ qheap' = rest
                /\ level' = [level EXCEPT !.walls = @ \ {cell[1]}]
                /\ UNCHANGED <<dij_dict, pc, all_result>>
           ELSE LET vals == temp_dict(dij_dict, cell[1], Adj(adj, level, cell[1]))
                IN  /\ dij_dict' = DictSetAll(dij_dict, vals)
                    /\ qheap' = PushAll(rest, vals)
                    /\ UNCHANGED <<level, pc, all_result>>
    /\ UNCHANGED <<adj, initial_position, destination, curr, found,
                   path, sp_result>>

\* lines 72-80, one iteration
AllPop ==
    /\ pc = "all_loop"
    /\ qheap # <<>>
    /\ LET cell == Head(qheap)
           rest == Tail(qheap)
       IN  IF cell[1] \in level.walls
           THEN /\ qheap' = rest
                /\ UNCHANGED <<dij_dict, pc, all_result>>
           ELSE IF AdjRaises(adj, level, cell[1])
           THEN /\ qheap' = rest
                /\ all_result' = Raised
                /\ pc' = "sp_seed"
                /\ UNCHANGED dij_dict
           ELSE LET vals == temp_dict(dij_dict, cell[1], Adj(adj, level, cell[1]))
                IN  /\ dij_dict' = DictSetAll(dij_dict, vals)
                    /\ qheap' = PushAll(rest, vals)
                    /\ UNCHANGED <<pc, all_result>>
    /\ UNCHANGED <<level, adj, initial_position, destination, curr, found,
                   path, sp_result>>

\* line 82
AllReturn ==
    /\ pc = "all_loop"
    /\ qheap = <<>>
    /\ all_result' = [kind |-> "dict", value |-> dij_dict]
    /\ pc' = "sp_seed"
    /\ UNCHANGED <<level, adj, initial_position, destination, dij_dict, qheap,
                   curr, found, path, sp_result>>

(***************************************************************************)
(* dijkstras_shortest_path                                                 *)
(***************************************************************************)
\* lines 19-24, called with any destination
SpSeed ==
    /\ pc = "sp_seed"
    /\ destination' \in Destinations
    /\ IF AdjRaises(adj, level, initial_position)
       THEN /\ sp_result' = Raised
            /\ pc' = "done"
            /\ UNCHANGED <<dij_dict, qheap>>
       ELSE LET adject == Adj(adj, level, initial_position)
            IN  /\ dij_dict' = SeedDict(adject, initial_position)
                /\ qheap' = SeedHeap(adject)
                /\ pc' = "sp_loop"
                /\ UNCHANGED sp_result
    /\ UNCHANGED <<level, adj, initial_position, curr, found, path,
                   all_result>>

\* lines 25-35, one iteration
SpPop ==
    /\ pc = "sp_loop"
    /\ qheap # <<>>
    /\ LET cell == Head(qheap)
           rest == Tail(qheap)
       IN  IF cell[1] = destination
           THEN /\ qheap' = rest
                /\ pc' = "sp_check"
                /\ UNCHANGED <<dij_dict, sp_result>>
           ELSE IF cell[1] \in level.walls
           THEN /\ qheap' = rest
                /\ UNCHANGED <<dij_dict, pc, sp_result>>
           ELSE IF AdjRaises(adj, level, cell[1])
           THEN /\ qheap' = rest
                /\ sp_result' = Raised
                /\ pc' = "done"
                /\ UNCHANGED dij_dict
           ELSE LET vals == temp_dict(dij_dict, cell[1], Adj(adj, level, cell[1]))
                IN  /\ dij_dict' = DictSetAll(dij_dict, vals)
                    /\ qheap' = PushAll(rest, vals)
                    /\ UNCHANGED <<pc, sp_result>>
    /\ UNCHANGED <<level, adj, initial_position, destination, curr, found,
                   path, all_result>>

\* line 25, the queue is empty
SpLoopEnd ==
    /\ pc = "sp_loop"
    /\ qheap = <<>>
    /\ pc' = "sp_check"
    /\ UNCHANGED <<level, adj, initial_position, destination, dij_dict, qheap,
                   curr, found, path, all_result, sp_result>>

\* a destination that the cost map holds with a finite cost only
Reached_Finite(dict, dst) == dst \in DOMAIN dict /\ ~dict[dst].inf

\* line 36: destination in dij_dict
Reached(dict, dst) == dst \in DOMAIN dict

\* lines 36-41
SpCheck ==
    /\ pc = "sp_check"
    /\ IF ~Reached(dij_dict, destination)
       THEN /\ sp_result' = None
            /\ pc' = "done"
            /\ UNCHANGED <<curr, found, path>>
       ELSE /\ curr' = destination
            /\ path' = <<destination>>
            /\ found' = destination
            /\ pc' = "walk"
            /\ UNCHANGED sp_result
    /\ UNCHANGED <<level, adj, initial_position, destination, dij_dict, qheap,
                   all_result>>

\* The longest path the backward walk may build before the model stops it.
MaxPathLen == (MaxX + 1) * (MaxY + 1) + 2

\* lines 42-49, one iteration
WalkStep ==
    /\ pc = "walk"
    /\ curr # initial_position
    /\ Len(path) < MaxPathLen
    /\ found' = Scan(dij_dict, curr, found, 0)
    /\ path' = <<found'>> \o path
    /\ curr' = found'
    /\ UNCHANGED <<level, adj, initial_position, destination, pc, dij_dict,
                   qheap, all_result, sp_result>>

\* lines 50-51
SpReturn ==
    /\ pc = "walk"
    /\ curr = initial_position
    /\ path' = <<initial_position>> \o path
    /\ sp_result' = [kind |-> "path", value |-> path']
    /\ pc' = "done"
    /\ UNCHANGED <<level, adj, initial_position, destination, dij_dict, qheap,
                   curr, found, all_result>>

(***************************************************************************)
(* A second call of dijkstras_shortest_path_to_all with the same level and *)
(* source, after the first has returned.  The call binds dij_dict and      *)
(* qheap anew (lines 67-68); the map it returns is dij_dict at line 82.    *)
(***************************************************************************)
\* lines 66-71
AgainSeed ==
    /\ pc = "sp_seed"
    /\ IF AdjRaises(adj, level, initial_position)
       THEN /\ pc' = "again_raised"
            /\ UNCHANGED <<dij_dict, qheap>>
       ELSE LET adject == Adj(adj, level, initial_position)
            IN  /\ dij_dict' = SeedDict(adject, initial_position)
                /\ qheap' = SeedHeap(adject)
                /\ pc' = "again_loop"
    /\ UNCHANGED <<level, adj, initial_position, destination, curr, found,
                   path, all_result, sp_result>>

\* lines 72-80, one iteration
AgainPop ==
    /\ pc = "again_loop"
    /\ qheap # <<>>
    /\ LET cell == Head(qheap)
           rest == Tail(qheap)
       IN  IF cell[1] \in level.walls
           THEN /\ qheap' = rest
                /\ UNCHANGED <<dij_dict, pc>>
           ELSE IF AdjRaises(adj, level, cell[1])
           THEN /\ qheap' = rest
                /\ pc' = "again_raised"
                /\ UNCHANGED dij_dict
           ELSE LET vals == temp_dict(dij_dict, cell[1], Adj(adj, level, cell[1]))
                IN  /\ dij_dict' = DictSetAll(dij_dict, vals)
                    /\ qheap' = PushAll(rest, vals)
                    /\ UNCHANGED pc
    /\ UNCHANGED <<level, adj, initial_position, destination, curr, found,
                   path, all_result, sp_result>>

\* line 82
AgainReturn ==
    /\ pc = "again_loop"
    /\ qheap = <<>>
    /\ pc' = "again_done"
    /\ UNCHANGED <<level, adj, initial_position, destination, dij_dict, qheap,
                   curr, found, path, all_result, sp_result>>

Next ==
    \/ AllSeed
    \/ AllPop
    \/ AllReturn
    \/ SpSeed
    \/ SpPop
    \/ SpLoopEnd
    \/ SpCheck
    \/ WalkStep
    \/ SpReturn
    \/ AgainSeed
    \/ AgainPop
    \/ AgainReturn

Spec == Init /\ [][Next]_vars

SpecFour == InitFour /\ [][Next]_vars

SpecNegative == InitNegative /\ [][Next]_vars

(***************************************************************************)
(* dijkstras_shortest_path_to_all with the pending entries processed in    *)
(* any order: the iteration of lines 72-80 on an entry of the queue that   *)
(* need not be the one heappop returns.                                    *)
(***************************************************************************)
Remove(h, i) == SubSeq(h, 1, i - 1) \o SubSeq(h, i + 1, Len(h))

AnyPop ==
    /\ pc = "all_loop"
    /\ \E i \in 1 .. Len(qheap) :
          LET cell == qheap[i]
              rest == Remove(qheap, i)
          IN  IF cell[1] \in level.walls
              THEN /\ qheap' = rest
                   /\ UNCHANGED <<dij_dict, pc, all_result>>
              ELSE IF AdjRaises(adj, level, cell[1])
              THEN /\ qheap' = rest
                   /\ all_result' = Raised
                   /\ pc' = "sp_seed"
                   /\ UNCHANGED dij_dict
              ELSE LET vals == temp_dict(dij_dict, cell[1],
                                         Adj(adj, level, cell[1]))
                   IN  /\ dij_dict' = DictSetAll(dij_dict, vals)
                       /\ qheap' = PushAll(rest, vals)
                       /\ UNCHANGED <<pc, all_result>>
    /\ UNCHANGED <<level, adj, initial_position, destination, curr, found,
                   path, sp_result>>

NextAnyOrder == AllSeed \/ AnyPop \/ AllReturn

SpecAnyOrder == Init /\ [][NextAnyOrder]_vars

(***************************************************************************)
(* The same run started before the level is loaded (lines 131-136 and      *)
(* 158-162): one thread that runs each call to its end, so a step that can *)
(* be taken is taken (weak fairness of the next-state action).             *)
(***************************************************************************)
NoLevel == [spaces |-> EmptyDict, walls |-> {},
            waypoints |-> [w \in {"a"} |-> NoCell]]

InitLoad ==
    /\ adj = "navigation_edges"
    /\ initial_position = NoCell
    /\ destination = NoCell
    /\ level = NoLevel
    /\ pc = "load"
    /\ dij_dict = EmptyDict
    /\ qheap = <<>>
    /\ curr = NoCell
    /\ found = NoCell
    /\ path = <<>>
    /\ all_result = Pending
    /\ sp_result = Pending

\* lines 131-136 and 158-162: load_level and the lookup of the waypoint
Load ==
    /\ pc = "load"
    /\ initial_position' \in Sources
    /\ level' \in Levels(initial_position')
    /\ pc' = "all_seed"
    /\ UNCHANGED <<adj, destination, dij_dict, qheap, curr, found, path,
                   all_result, sp_result>>

NextLoad == Load \/ Next

\* no step can be taken: a call sequence has returned or raised (or the
\* backward walk has reached the longest path that is followed)
Stopped ==
    \/ pc \in {"done", "again_done", "again_raised"}
    \/ pc = "walk" /\ curr # initial_position /\ Len(path) >= MaxPathLen

\* Weak fairness of NextLoad, WF_vars(NextLoad), with its condition
\* ENABLED <<NextLoad>>_vars written out as ~Stopped.
FairSpec ==
    /\ InitLoad
    /\ [][NextLoad]_vars
    /\ ([]<>Stopped \/ []<><<NextLoad>>_vars)

(***************************************************************************)
(* Reference definitions for the properties: the graph that the adjacency  *)
(* function induces on the spaces, and its minimum path costs computed by  *)
(* rounds of relaxation over all edges (Bellman-Ford).                     *)
(***************************************************************************)
Spaces == DOMAIN level.spaces

\* the cells with an entry in adj(level, u)
AdjCells(u) ==
    IF AdjRaises(adj, level, u) THEN {}
    ELSE LET es == Adj(adj, level, u)
         IN  {es[i][1] : i \in 1 .. Len(es)}

\* the edges <<u, v, cost>> between spaces: v has an entry in adj(level, u)
SpaceEdges ==
    UNION {LET es == Adj(adj, level, u)
           IN  {<<u, es[i][1], es[i][2]>> :
                  i \in {j \in 1 .. Len(es) : es[j][1] \in Spaces}} :
             u \in Spaces}

RECURSIVE ReachFrom(_, _)
ReachFrom(S, E) ==
    LET T == S \cup {e[2] : e \in {f \in E : f[1] \in S}}
    IN  IF T = S THEN S ELSE ReachFrom(T, E)

\* the spaces reachable from the source through spaces
Reachable ==
    IF initial_position \in Spaces
    THEN ReachFrom({initial_position}, SpaceEdges)
    ELSE {}

CostMin(S) == CHOOSE m \in S : \A x \in S : ~CostLess(x, m)

\* the cost recorded for v in a set D of pairs <<cell, cost>>
CostIn(D, v) == (CHOOSE p \in D : p[1] = v)[2]

RECURSIVE Rounds(_, _, _)
Rounds(D, E, k) ==
    IF k = 0 THEN D
    ELSE Rounds({<<v, CostMin({CostIn(D, v)} \cup
                              {CostAdd(CostIn(D, e[1]), e[3]) :
                                 e \in {f \in E : f[2] = v}})>> :
                   v \in Spaces},
                E, k - 1)

\* the pairs <<space, minimum cost of a path from the source>> (Inf: none)
MinCosts ==
    Rounds({<<v, IF v = initial_position THEN Zero ELSE Inf>> : v \in Spaces},
           SpaceEdges, Cardinality(Spaces))

AllReturned == pc = "sp_seed" /\ all_result.kind = "dict"

\* C1: when dijkstras_shortest_path_to_all returns for a source that is a
\* space, every space reachable from the source through spaces is a key of
\* the returned map and its value is the minimum path cost from the source.
C1_CostMapIsMinimal ==
    (AllReturned /\ initial_position \in Spaces) =>
        LET M == MinCosts
        IN  \A c \in Reachable :
                /\ c \in DOMAIN all_result.value
                /\ all_result.value[c] = CostIn(M, c)

\* C1 witness: a returned map for a level with a wall and a costly space,
\* holding a cell outside the 3x3 block of the source whose minimum cost
\* is below the cost of some other path to it.
C1_Witness ==
    /\ AllReturned
    /\ initial_position \in Spaces
    /\ level.walls # {}
    /\ \E c \in Spaces : level.spaces[c] > 1
    /\ \E e \in SpaceEdges :
          /\ e[2] \in Reachable
          /\ e[2] \notin AdjCells(initial_position)
          /\ e[2] # initial_position
          /\ CostLess(all_result.value[e[2]],
                      CostAdd(all_result.value[e[1]], e[3]))

(***************************************************************************)
(* dijkstras_shortest_path: the returned path.                             *)
(***************************************************************************)
SpDone == pc = "done"

PathReturned == pc = "done" /\ sp_result.kind = "path"

Last(p) == p[Len(p)]

\* the cost of the step from u to v: that of the entry of v in
\* adj(level, u); nothing for staying on a cell; Inf where adj has no entry
StepCost(u, v) ==
    IF u = v THEN Zero
    ELSE IF AdjRaises(adj, level, u) THEN Inf
    ELSE LET es == Adj(adj, level, u)
             is == {i \in 1 .. Len(es) : es[i][1] = v}
         IN  IF is = {} THEN Inf ELSE es[CHOOSE i \in is : TRUE][2]

RECURSIVE PathCost(_)
PathCost(p) ==
    IF Len(p) <= 1 THEN Zero
    ELSE CostAdd(StepCost(p[1], p[2]), PathCost(Tail(p)))

\* the minimum cost of a path from the source to d (Inf: none)
MinCostTo(d) == IF d \in Spaces THEN CostIn(MinCosts, d) ELSE Inf

\* C2: a path returned by dijkstras_shortest_path is a minimum-cost path:
\* the sum of the costs of its steps is the minimum path cost from the
\* source to the destination.  (A repeated cell is counted as a step of
\* cost 0, so that only the cost of the route is judged here.)
C2_PathIsMinimal ==
    (PathReturned /\ initial_position \in Spaces) =>
        PathCost(sp_result.value) = MinCostTo(destination)

\* C3: a path returned by dijkstras_shortest_path with navigation_edges
\* starts with the source, ends with the destination, has at least one
\* cell, and each cell after the first has an entry in the adjacency of
\* the cell before it.
C3_PathIsValid ==
    PathReturned =>
        LET p == sp_result.value
        IN  /\ Len(p) >= 1
            /\ Head(p) = initial_position
            /\ Last(p) = destination
            /\ \A i \in 1 .. Len(p) - 1 : p[i + 1] \in AdjCells(p[i])

\* C4: no key of the map returned by dijkstras_shortest_path_to_all and no
\* cell of a path returned by dijkstras_shortest_path is a wall.
C4_WallExclusion ==
    /\ AllReturned => DOMAIN all_result.value \cap level.walls = {}
    /\ PathReturned =>
          \A i \in 1 .. Len(sp_result.value) :
              sp_result.value[i] \notin level.walls

\* C5: from a source that is a space, dijkstras_shortest_path returns None
\* whenever the destination is not reachable from the source through
\* spaces, in particular whenever the destination is a wall.
C5_NoPathToUnreachable ==
    (SpDone /\ initial_position \in Spaces /\ destination \notin Reachable)
        => sp_result = None

\* C6: when the source is a space and equals the destination,
\* dijkstras_shortest_path returns the path holding the source alone.
C6_SourceIsDestination ==
    (SpDone /\ initial_position \in Spaces /\ destination = initial_position)
        => sp_result = [kind |-> "path", value |-> <<initial_position>>]

\* C7: a cell d is a key of the map returned by
\* dijkstras_shortest_path_to_all exactly when dijkstras_shortest_path to d
\* returns a path.
C7_ReachabilityAgreement ==
    SpDone =>
        ((all_result.kind = "dict" /\ destination \in DOMAIN all_result.value)
            <=> (sp_result.kind = "path" /\ Len(sp_result.value) > 0))

\* C7 witness: a path returned after the loop stopped at the destination
\* with entries left in the queue, to a cell two steps from the source.
C7_Witness ==
    /\ PathReturned
    /\ qheap # <<>>
    /\ destination \in DOMAIN all_result.value
    /\ destination \in Spaces
    /\ destination # initial_position
    /\ destination \notin AdjCells(initial_position)

\* C8: when the source is a wall or outside the spaces, both queries
\* complete without an error and dijkstras_shortest_path finds no path to
\* any other cell.
C8_NonSpaceSourceTolerated ==
    (SpDone /\ initial_position \notin Spaces) =>
        /\ all_result.kind = "dict"
        /\ sp_result.kind # "KeyError"
        /\ destination # initial_position => sp_result = None

\* C9: with the four-connected adjacency function, each cell of a returned
\* path after the first is the cell before it or has an entry in the
\* adjacency of the cell before it.
C9_StepsAreAdjEdges ==
    (PathReturned /\ adj = "four_connected") =>
        LET p == sp_result.value
        IN  \A i \in 1 .. Len(p) - 1 :
                p[i + 1] = p[i] \/ p[i + 1] \in AdjCells(p[i])

\* the costs 1 and sqrt(2)
One == [inf |-> FALSE, s |-> 2, d |-> 0]

Sqrt2 == [inf |-> FALSE, s |-> 0, d |-> 2]

Grid3x3 == (0 .. 2) \X (0 .. 2)

Centre3x3 ==
    /\ level.spaces = [c \in Grid3x3 |-> 1]
    /\ level.walls = {}
    /\ initial_position = <<1, 1>>

\* C10: on the 3x3 grid of spaces of cost 1 without walls,
\* dijkstras_shortest_path_to_all from (1,1) returns the map of the 9
\* cells with 0 for the centre, 1 for the 4 orthogonal neighbours and
\* sqrt(2) for the 4 diagonal neighbours.
C10_Centre3x3Costs ==
    (AllReturned /\ Centre3x3) =>
        all_result.value =
            [c \in Grid3x3 |->
                IF c = <<1, 1>> THEN Zero
                ELSE IF c[1] = 1 \/ c[2] = 1 THEN One
                ELSE Sqrt2]

\* C10 witness: the map is returned for the 3x3 scenario.
C10_Witness == AllReturned /\ Centre3x3 /\ Cardinality(DOMAIN all_result.value) = 9

(***************************************************************************)
(* Two calls of dijkstras_shortest_path_to_all.                            *)
(***************************************************************************)
AgainReturned == pc = "again_done"

\* C11: a second call of dijkstras_shortest_path_to_all with the same level
\* and source returns the map the first call returned, and no step of a
\* query changes the level.
C11_SecondCallSameMap ==
    /\ [](AgainReturned =>
            (all_result.kind = "dict" /\ dij_dict = all_result.value))
    /\ [][level' = level]_vars

\* C11 witness: the second call has returned, for a level with a wall and
\* a costly space, a map with a space that is not next to the source.
C11_Witness ==
    /\ AgainReturned
    /\ level.walls # {}
    /\ \E c \in Spaces : level.spaces[c] > 1
    /\ initial_position \in Spaces
    /\ \E c \in DOMAIN dij_dict \cap Spaces :
          c # initial_position /\ c \notin AdjCells(initial_position)

(***************************************************************************)
(* navigation_edges and the queue.                                         *)
(***************************************************************************)
\* the 8 cells around a cell
Around(cell) ==
    {c \in (cell[1] - 1 .. cell[1] + 1) \X (cell[2] - 1 .. cell[2] + 1) :
       c # cell}

\* C12: once the search has called it, navigation_edges returns for each
\* space at most 8 entries: one for each of the 8 surrounding cells that is
\* a space, none for a wall and none for the cell itself.
C12_OnlySpacesReturned ==
    (pc = "all_loop" /\ initial_position \in Spaces) =>
        \A cell \in Spaces :
            LET es == navigation_edges(level, cell)
                cells == {es[i][1] : i \in 1 .. Len(es)}
            IN  /\ Len(es) <= 8
                /\ Len(es) = Cardinality(cells)
                /\ cells = Around(cell) \cap Spaces
                /\ cells \cap level.walls = {}
                /\ cell \notin cells

InLoop == pc \in {"all_loop", "sp_loop", "again_loop"}

\* C13: in the relaxation loops the entry that the next pop returns has an
\* accumulated cost that is minimal among the entries in the queue.
C13_PopsCheapest ==
    (InLoop /\ qheap # <<>>) =>
        \A i \in 1 .. Len(qheap) : ~CostLess(qheap[i][2], Head(qheap)[2])

\* C14: when the loop of dijkstras_shortest_path has stopped with the
\* destination in the cost map, the entry of the destination is its
\* minimum cost from the source.
C14_PoppedCostIsFinal ==
    (/\ pc = "sp_check"
     /\ initial_position \in Spaces
     /\ destination \in Spaces
     /\ destination \in DOMAIN dij_dict)
        => dij_dict[destination] = MinCostTo(destination)

(***************************************************************************)
(* The cost map during the relaxation loops.                               *)
(***************************************************************************)
\* the value of key k after a step is the cost of the popped cell plus the
\* cost of an edge from the popped cell to k
IsCandidate(k, v) ==
    /\ qheap # <<>>
    /\ LET cell == Head(qheap)[1]
           es == Adj(adj, level, cell)
       IN  \E i \in 1 .. Len(es) :
               es[i][1] = k /\ v = CostAdd(es[i][2], dij_dict[cell])

\* C15: in every state of a relaxation loop the cost map holds 0 for the
\* source and no negative value; a step of the loop removes no key and
\* changes the value of a key only to a strictly smaller candidate (the
\* cost of the popped cell plus the edge cost).
C15_CostMapMonotone ==
    /\ [](InLoop =>
            /\ initial_position \in DOMAIN dij_dict
            /\ dij_dict[initial_position] = Zero
            /\ \A k \in DOMAIN dij_dict : ~CostLess(dij_dict[k], Zero))
    /\ [][InLoop =>
            \A k \in DOMAIN dij_dict :
                /\ k \in DOMAIN dij_dict'
                /\ \/ dij_dict'[k] = dij_dict[k]
                   \/ /\ CostLess(dij_dict'[k], dij_dict[k])
                      /\ IsCandidate(k, dij_dict'[k])]_vars

\* C15 witness: the queue of a loop holds two entries of one space, the
\* stale one and the one pushed when the cost of the space was lowered.
C15_Witness ==
    /\ InLoop
    /\ \E i, j \in 1 .. Len(qheap) :
          /\ qheap[i][1] = qheap[j][1]
          /\ CostLess(qheap[i][2], qheap[j][2])
          /\ dij_dict[qheap[i][1]] = qheap[i][2]

(***************************************************************************)
(* Termination of the relaxation loops.                                    *)
(***************************************************************************)
\* the entries that a step has pushed onto the queue
Pushed == {qheap'[i] : i \in 1 .. Len(qheap')} \
          {qheap[i] : i \in 2 .. Len(qheap)}

\* C16: every relaxation loop ends (the queue becomes empty or the
\* destination is popped), and a step of a loop pushes an entry only for a
\* cell that it adds to the cost map or whose cost it strictly lowers.
C16_LoopsTerminate ==
    /\ InLoop ~> ~InLoop
    /\ [][InLoop =>
            \A e \in Pushed :
                /\ dij_dict'[e[1]] = e[2]
                /\ \/ e[1] \notin DOMAIN dij_dict
                   \/ CostLess(e[2], dij_dict[e[1]])]_vars

\* C16 witness: a loop has ended with an empty queue, for a level with a
\* wall, after it added a space that is not next to the source.
C16_Witness ==
    /\ pc \in {"sp_seed", "again_done"}
    /\ all_result.kind = "dict"
    /\ qheap = <<>>
    /\ level.walls # {}
    /\ \E c \in DOMAIN dij_dict \cap Spaces :
          c # initial_position /\ c \notin AdjCells(initial_position)

(***************************************************************************)
(* Negative edge costs.                                                    *)
(***************************************************************************)
\* adj returns a negative cost for an edge of the source
NegativeEdgeOfSource ==
    /\ ~AdjRaises(adj, level, initial_position)
    /\ \E i \in 1 .. Len(Adj(adj, level, initial_position)) :
          CostLess(Adj(adj, level, initial_position)[i][2], Zero)

\* C17: when the adjacency function returns a negative edge cost, neither
\* query returns normally (a cost map, None or a path).
C17_NegativeCostFailsLoudly ==
    NegativeEdgeOfSource =>
        /\ all_result.kind # "dict"
        /\ sp_result.kind \notin {"None", "path"}

(***************************************************************************)
(* The backward walk.                                                      *)
(***************************************************************************)
Walking == pc = "walk" /\ curr # initial_position

\* C18: when the destination is in the cost map after the loop of
\* dijkstras_shortest_path, the backward walk terminates: a current cell
\* other than the source has a strictly cheaper cell of the map in its 3x3
\* block, every step of the walk moves to such a cell, and the walk ends
\* with the path returned.
C18_WalkTerminates ==
    /\ [](Walking =>
            /\ \E c \in Around(curr) \cap DOMAIN dij_dict :
                  CostLess(dij_dict[c], dij_dict[curr])
            /\ Len(path) < MaxPathLen)
    /\ [][Walking =>
            /\ curr' \in Around(curr) \cap DOMAIN dij_dict
            /\ CostLess(dij_dict[curr'], dij_dict[curr])]_vars
    /\ (pc = "walk") ~> (pc = "done" /\ sp_result.kind = "path")

\* a walk of two steps and more after an early exit of the loop
C18_Witness ==
    /\ pc = "done"
    /\ sp_result.kind = "path"
    /\ Len(qheap) > 0
    /\ Len(path) >= 4

(***************************************************************************)
(* The order of the pops.                                                  *)
(***************************************************************************)
\* the cells the search expands: the spaces reachable from a source that is
\* a space, else the source alone
Expanded == IF initial_position \in Spaces THEN Reachable ELSE {initial_position}

\* the map fixed by the level and the source: the expanded cells and the
\* cells adj returns for them, a space at its minimum cost, a wall at inf
FinalMap ==
    LET M == MinCosts
    IN  [c \in Expanded \cup UNION {AdjCells(u) : u \in Expanded} |->
            IF c = initial_position THEN Zero
            ELSE IF c \in Spaces THEN CostIn(M, c)
            ELSE Inf]

\* C19: whatever pending entry each iteration of the loop of
\* dijkstras_shortest_path_to_all processes, the call ends with the same
\* outcome, fixed by the level and the source: a KeyError when adj raises
\* for the source, else the map FinalMap.
C19_PopOrderIndependent ==
    (pc = "sp_seed") =>
        IF AdjRaises(adj, level, initial_position)
        THEN all_result = Raised
        ELSE all_result.kind = "dict" /\ all_result.value = FinalMap

\* the first entry of the seeded heap is still pending after an iteration
\* has added a key to the map: an entry was processed out of heap order
C19_Witness ==
    /\ pc = "all_loop"
    /\ level.walls # {}
    /\ \E c \in Spaces : level.spaces[c] > 1
    /\ LET adject == Adj(adj, level, initial_position)
       IN  /\ \E i \in 1 .. Len(qheap) : qheap[i] = Head(SeedHeap(adject))
           /\ DOMAIN dij_dict # DOMAIN SeedDict(adject, initial_position)

====
